---- MODULE Spec2Model ----
(***************************************************************************)
(* Debug-session event pipeline of chrome_extension_builder:               *)
(*   browser/event_logger.py  BrowserEventLogger, DebugSessionManager      *)
(*   browser/manager.py       BrowserManager debug-session wrappers        *)
(*   models/browser.py        BrowserEvent, BrowserError, DebugSession,    *)
(*                            LogAnalysis                                  *)
(*   api/routes.py            debug routes                                 *)
(*   chat/cli_handler.py      CLIHandler code generation and its fallback  *)
(*                                                                         *)
(* Listener coroutines are scheduled by the event emitter as tasks: a      *)
(* native callback first enters `pending` (Emit) and its handler body runs *)
(* in a later step (RunTask).  Handler bodies, stop_logging and the        *)
(* registry methods contain no suspension point, so each is one step.      *)
(***************************************************************************)
EXTENDS Integers, Sequences, FiniteSets, TLC

\* ------------------------------------------------------------------ bounds
MaxLoggers == 2        \* Spec: BrowserEventLogger objects constructed in a run
MaxCallbacks == 1      \* Spec: native browser callbacks fired in a run
MaxLogCallbacks == 3   \* SpecLog: native browser callbacks fired at the one logger
MaxApiLoggers == 1     \* SpecApi: BrowserEventLogger objects constructed in a run
MaxApiCallbacks == 2   \* SpecApi: native browser callbacks fired in a run
MaxObservers == 2      \* SpecObs: observers added to the one logger
MaxObsCallbacks == 2   \* SpecObs: native browser callbacks fired at the one logger
MaxBrowserLoggers == 2     \* SpecBrowser: load-extension requests in a run
MaxBrowserCallbacks == 1   \* SpecBrowser: native browser callbacks fired in a run
MaxClicks == 12        \* SpecAnalyze: click events in the analysed log
MaxOtherEvents == 1    \* SpecAnalyze: events of another kind in the analysed log
MaxJsErrors == 3       \* SpecAnalyze: javascript_error errors in the analysed log
MaxNetErrors == 1      \* SpecAnalyze: network_error errors in the analysed log

\* ------------------------------------------------------------------ inputs
SessionIds == {"s1", "s2"}
ExtensionIds == {"e1"}
None == "None"

\* datetime.utcnow() / datetime.now(): the instants are not told apart
utcnow == "now"

\* models/browser.py EventType: member name -> value
EventTypeValue ==
    [CLICK |-> "click", KEYBOARD |-> "keyboard", NAVIGATION |-> "navigation",
     CONSOLE_LOG |-> "console_log", CONSOLE_ERROR |-> "console_error",
     NETWORK_ERROR |-> "network_error", EXTENSION_ERROR |-> "extension_error",
     DOM_CHANGE |-> "dom_change", SCROLL |-> "scroll", RESIZE |-> "resize"]

EventType == DOMAIN EventTypeValue

\* The listeners _setup_page_listeners and _setup_context_listeners register:
\* native event name -> the (event type, data) its lambda passes to _log_event.
PageListeners ==
    [click |-> [type |-> "CLICK",
                data |-> [element |-> "clicked_element", coordinates |-> "click_coordinates"]],
     keydown |-> [type |-> "KEYBOARD",
                  data |-> [key |-> "pressed_key", modifiers |-> "key_modifiers"]],
     framenavigated |-> [type |-> "NAVIGATION",
                         data |-> [url |-> "frame_url", type |-> "navigation"]],
     domcontentloaded |-> [type |-> "DOM_CHANGE", data |-> [type |-> "dom_loaded"]],
     scroll |-> [type |-> "SCROLL", data |-> [scroll_position |-> "scroll_coordinates"]],
     resize |-> [type |-> "RESIZE", data |-> [new_size |-> "window_dimensions"]],
     serviceworker |-> [type |-> "EXTENSION_ERROR",
                        data |-> [service_worker |-> "worker_url", type |-> "service_worker_event"]]]

\* Number of parameters of each listener lambda: `lambda:` takes none,
\* `lambda frame:` and `lambda worker:` take one.
ListenerParams ==
    [click |-> 0, keydown |-> 0, framenavigated |-> 1, domcontentloaded |-> 0,
     scroll |-> 0, resize |-> 0, serviceworker |-> 1]

\* Number of arguments the emitter calls the listeners of each native event
\* with: the browser library passes the frame, the page and the worker; the
\* other events are delivered as their listeners were registered.
EmittedArgs ==
    [click |-> 0, keydown |-> 0, framenavigated |-> 1, domcontentloaded |-> 1,
     scroll |-> 0, resize |-> 0, serviceworker |-> 1]

\* Native callbacks the browser delivers to one logger's listeners in the
\* runs explored: one page listener, the context listener, console messages
\* of two levels, page errors, and request failures with and without a
\* failure text.
FiredListeners == {"click", "serviceworker"}
ConsoleLevels == {"log", "error"}
NativeCallbacks ==
    [handler : {"page_event"}, name : FiredListeners]
    \cup [handler : {"console"}, type : ConsoleLevels, text : {"x"}]
    \cup [handler : {"pageerror"}, message : {"boom"}, stack : {"trace"}]
    \cup [handler : {"requestfailed"}, failure : {None, "net::ERR_FAILED"}, url : {"u"}]

\* The callbacks delivered in the runs of Spec, which vary the sessions and
\* loggers instead: one that records an event and one that records an error.
RegistryCallbacks ==
    [handler : {"page_event"}, name : {"click"}]
    \cup [handler : {"pageerror"}, message : {"boom"}, stack : {"trace"}]

\* The callbacks delivered in the runs of SpecObs: two page events, one of
\* them the page's DOMContentLoaded, and a console message.
ObsCallbacks ==
    [handler : {"page_event"}, name : {"click", "domcontentloaded"}]
    \cup [handler : {"console"}, type : {"error"}, text : {"x"}]

\* The observers passed to add_event_callback
ObserverCallbacks == {"f", "g"}

\* Outcomes of writing the log file: success, open() raising, write raising
\* after open() truncated the file.
IoOutcomes == {"ok", "open_fails", "write_fails"}

VARIABLES
    loggers,                \* every BrowserEventLogger constructed, by object index
    active_sessions,        \* DebugSessionManager.active_sessions: session id -> logger index
    debug_sessions,         \* DebugSessionManager.debug_sessions: session id -> DebugSession
    current_debug_session,  \* BrowserManager.current_debug_session: session id or None
    files,                  \* file system under logs/: path -> content
    pending,                \* listener coroutines scheduled and not yet run, FIFO
    fired,                  \* native callbacks fired so far
    clock,                  \* source of the fresh uuid4() ids
    browser_manager,        \* routes._browser_manager: None or the BrowserManager
    outcome                 \* what the last step did and returned to its caller

vars == <<loggers, active_sessions, debug_sessions, current_debug_session,
          files, pending, fired, clock, browser_manager, outcome>>

\* ------------------------------------------------------- BrowserEventLogger
\* BrowserEventLogger.__init__
log_file_path(session_id) == <<"logs", "session_", session_id, ".json">>

NewLogger(session_id, extension_id) ==
    [session_id |-> session_id, extension_id |-> extension_id,
     events |-> <<>>, errors |-> <<>>, console_logs |-> <<>>,
     is_logging |-> FALSE, log_file_path |-> log_file_path(session_id),
     event_callbacks |-> <<>>]

\* BrowserEventLogger.start_logging: the early return and the flag; the
\* listeners it registers are what Emit delivers to.
start_logging(lg) ==
    IF lg.is_logging THEN lg ELSE [lg EXCEPT !.is_logging = TRUE]

\* BrowserEvent(...) as constructed in _log_event
BrowserEvent(id, now, event_type, data, lg) ==
    [id |-> id, type |-> event_type, timestamp |-> now, url |-> "current_page_url",
     element |-> None, data |-> data,
     session_id |-> lg.session_id, extension_id |-> lg.extension_id]

\* BrowserEventLogger._log_event: the logger after the call
log_event_NoGuard(lg, event_type, data, id, now) ==
    [lg EXCEPT !.events = Append(@, BrowserEvent(id, now, event_type, data, lg))]

log_event(lg, event_type, data, id, now) ==
    IF ~lg.is_logging THEN lg
    ELSE [lg EXCEPT !.events = Append(@, BrowserEvent(id, now, event_type, data, lg))]

\* BrowserError(...) as constructed in handle_error / handle_request_failure
BrowserError(id, now, type, message, stack_trace, url, severity, lg) ==
    [id |-> id, type |-> type, message |-> message, stack_trace |-> stack_trace,
     timestamp |-> now, url |-> url,
     session_id |-> lg.session_id, extension_id |-> lg.extension_id,
     severity |-> severity]

\* BrowserEventLogger._log_event, the loop over self.event_callbacks: the
\* calls made for the event just appended.  raising is the set of positions
\* whose callback raises an Exception; each call is in its own try/except.
notify_callbacks_Unprotected(lg, event_id, raising) ==
    LET n == IF raising = {} THEN Len(lg.event_callbacks)
             ELSE CHOOSE j \in raising : \A k \in raising : j <= k
    IN IF ~lg.is_logging THEN <<>>
       ELSE [j \in 1..n |->
                [callback |-> lg.event_callbacks[j], event |-> event_id,
                 raised |-> j \in raising]]

notify_callbacks(lg, event_id, raising) ==
    IF ~lg.is_logging THEN <<>>
    ELSE [j \in 1..Len(lg.event_callbacks) |->
             [callback |-> lg.event_callbacks[j], event |-> event_id,
              raised |-> j \in raising]]

\* the sets of callbacks that may raise when lg records an event
Raising(lg) ==
    IF lg.is_logging THEN SUBSET (1..Len(lg.event_callbacks)) ELSE {{}}

\* BrowserEventLogger.add_event_callback
add_event_callback_Front(lg, callback) ==
    [lg EXCEPT !.event_callbacks = <<callback>> \o @]

add_event_callback(lg, callback) ==
    [lg EXCEPT !.event_callbacks = Append(@, callback)]

\* handle_console: the console line, then the synthesized event
ConsoleLine(now, msg) == <<"[", now, "] ", msg.type, ": ", msg.text>>

handle_console_AlsoError(lg, msg, id, now) ==
    LET withLine == [lg EXCEPT !.console_logs = Append(@, ConsoleLine(now, msg))]
        event_type == IF msg.type = "log" THEN "CONSOLE_LOG" ELSE "CONSOLE_ERROR"
        logged == log_event(withLine, event_type,
                     [message |-> msg.text, level |-> msg.type, location |-> "unknown:unknown"],
                     id, now)
    IN IF msg.type = "log" THEN logged
       ELSE [logged EXCEPT !.errors = Append(@,
                BrowserError(id, now, "javascript_error", msg.text, None,
                             "page_url", "error", lg))]

handle_console(lg, msg, id, now) ==
    LET withLine == [lg EXCEPT !.console_logs = Append(@, ConsoleLine(now, msg))]
        event_type == IF msg.type = "log" THEN "CONSOLE_LOG" ELSE "CONSOLE_ERROR"
    IN log_event(withLine, event_type,
                 [message |-> msg.text, level |-> msg.type, location |-> "unknown:unknown"],
                 id, now)

\* handle_error (pageerror)
handle_error_Guarded(lg, error, id, now) ==
    IF ~lg.is_logging THEN lg
    ELSE [lg EXCEPT !.errors = Append(@,
            BrowserError(id, now, "javascript_error", error.message, error.stack,
                         "page_url", "error", lg))]

handle_error(lg, error, id, now) ==
    [lg EXCEPT !.errors = Append(@,
        BrowserError(id, now, "javascript_error", error.message, error.stack,
                     "page_url", "error", lg))]

\* handle_request_failure (requestfailed); f"Request failed: {request.failure}"
RequestFailedMessage ==
    [f \in {"net::ERR_FAILED"} |-> "Request failed: net::ERR_FAILED"]

handle_request_failure(lg, request, id, now) ==
    IF request.failure # None
    THEN [lg EXCEPT !.errors = Append(@,
            BrowserError(id, now, "network_error", RequestFailedMessage[request.failure],
                         None, request.url, "warning", lg))]
    ELSE lg

\* ---------------------------------------------------------------- log file
\* json.dump(..., default=str) of event.dict(): the EventType member is written
\* as its string value, the datetime through str().
DumpEvent_MemberName(e) == [e EXCEPT !.timestamp = <<"str", e.timestamp>>]
DumpEvent(e) ==
    [e EXCEPT !.type = EventTypeValue[e.type], !.timestamp = <<"str", e.timestamp>>]

DumpError(e) == [e EXCEPT !.timestamp = <<"str", e.timestamp>>]

\* [event.dict() for event in self.events], [error.dict() for error in self.errors]
DumpEvents(events) == [i \in 1..Len(events) |-> DumpEvent(events[i])]
DumpErrors(errors) == [i \in 1..Len(errors) |-> DumpError(errors[i])]

\* log_data of BrowserEventLogger._save_logs
LogData_TotalsMixed(lg, now) ==
    [session_id |-> lg.session_id, extension_id |-> lg.extension_id,
     timestamp |-> <<"iso", now>>,
     events |-> DumpEvents(lg.events),
     errors |-> DumpErrors(lg.errors),
     console_logs |-> lg.console_logs,
     summary |-> [total_events |-> Len(lg.events) + Len(lg.errors),
                  total_errors |-> Len(lg.errors),
                  total_console_logs |-> Len(lg.console_logs)]]

LogData(lg, now) ==
    [session_id |-> lg.session_id, extension_id |-> lg.extension_id,
     timestamp |-> <<"iso", now>>,
     events |-> DumpEvents(lg.events),
     errors |-> DumpErrors(lg.errors),
     console_logs |-> lg.console_logs,
     summary |-> [total_events |-> Len(lg.events),
                  total_errors |-> Len(lg.errors),
                  total_console_logs |-> Len(lg.console_logs)]]

\* BrowserEventLogger._save_logs: the file system after the call.  open(.., 'w')
\* truncates before json.dump writes, so a failing write leaves a truncated file.
save_logs(fs, lg, io, now) ==
    LET path == lg.log_file_path
        put(content) == [p \in DOMAIN fs \cup {path} |-> IF p = path THEN content ELSE fs[p]]
    IN CASE io = "ok" -> put([state |-> "written", data |-> LogData(lg, now)])
         [] io = "write_fails" -> put([state |-> "truncated"])
         [] OTHER -> fs

\* whether _save_logs raises
save_logs_raises_Swallowed(io) == FALSE
save_logs_raises(io) == io # "ok"

\* json.load of a session file
ParseFile(content) ==
    IF content.state = "written" THEN [ok |-> TRUE, data |-> content.data]
    ELSE [ok |-> FALSE]

\* BrowserEventLogger.stop_logging, line 61
stop_logging_flag(lg) == [lg EXCEPT !.is_logging = FALSE]

\* BrowserEventLogger.get_log_summary
CountOfType(seq, type) == Cardinality({i \in 1..Len(seq) : seq[i].type = type})

get_log_summary_CompareValue(lg) ==
    [session_id |-> lg.session_id, extension_id |-> lg.extension_id,
     total_events |-> Len(lg.events), total_errors |-> Len(lg.errors),
     total_console_logs |-> Len(lg.console_logs),
     event_types |-> [v \in {EventTypeValue[t] : t \in EventType} |->
                        CountOfType(lg.events, v)],
     error_types |-> [k \in {lg.errors[i].type : i \in 1..Len(lg.errors)} |->
                        CountOfType(lg.errors, k)],
     log_file_path |-> lg.log_file_path]

get_log_summary(lg) ==
    [session_id |-> lg.session_id, extension_id |-> lg.extension_id,
     total_events |-> Len(lg.events), total_errors |-> Len(lg.errors),
     total_console_logs |-> Len(lg.console_logs),
     event_types |-> [v \in {EventTypeValue[t] : t \in EventType} |->
                        CountOfType(lg.events,
                                    CHOOSE t \in EventType : EventTypeValue[t] = v)],
     error_types |-> [k \in {lg.errors[i].type : i \in 1..Len(lg.errors)} |->
                        CountOfType(lg.errors, k)],
     log_file_path |-> lg.log_file_path]

\* ------------------------------------------------------ DebugSessionManager
\* DebugSession(...) as constructed in start_debug_session
DebugSession(session_id, extension_id, lg, now) ==
    [id |-> session_id, browser_session_id |-> session_id, extension_id |-> extension_id,
     created_at |-> now, updated_at |-> now, log_file_path |-> lg.log_file_path,
     events_count |-> 0, errors_count |-> 0, is_active |-> TRUE]

\* dict assignment d[k] = v and del d[k]
DictSet(d, k, v) == [x \in DOMAIN d \cup {k} |-> IF x = k THEN v ELSE d[x]]
DictDel_Keep(d, k) == d
DictDel(d, k) == [x \in DOMAIN d \ {k} |-> d[x]]
EmptyDict == [x \in {} |-> None]

\* DebugSessionManager.get_session_logs: index of the logger object, 0 for None
get_session_logs(session_id) ==
    IF session_id \in DOMAIN active_sessions THEN active_sessions[session_id] ELSE 0

\* insertion-ordered dict of counts built by the loops of _generate_log_summary
RECURSIVE CountKinds(_, _)
CountKinds(kinds, acc) ==
    IF kinds = <<>> THEN acc
    ELSE LET k == Head(kinds)
             pos == {i \in 1..Len(acc) : acc[i][1] = k}
         IN CountKinds(Tail(kinds),
                IF pos = {} THEN Append(acc, <<k, 1>>)
                ELSE LET i == CHOOSE j \in pos : TRUE
                     IN [acc EXCEPT ![i] = <<k, acc[i][2] + 1>>])

\* a sequence backwards
Reverse(seq) == [i \in 1..Len(seq) |-> seq[Len(seq) + 1 - i]]

\* DebugSessionManager._generate_log_summary: the parts joined into the string
generate_log_summary_LastFirst(lg) ==
    <<[part |-> "Session logged", events |-> Len(lg.events), errors |-> Len(lg.errors)]>>
    \o (IF lg.events # <<>>
        THEN <<[part |-> "Event breakdown",
                items |-> Reverse(CountKinds([i \in 1..Len(lg.events) |->
                                        EventTypeValue[lg.events[i].type]], <<>>))]>>
        ELSE <<>>)
    \o (IF lg.errors # <<>>
        THEN <<[part |-> "Error breakdown",
                items |-> CountKinds([i \in 1..Len(lg.errors) |-> lg.errors[i].type], <<>>)]>>
        ELSE <<>>)
    \o (IF lg.console_logs # <<>>
        THEN <<[part |-> "Console output", entries |-> Len(lg.console_logs)]>>
        ELSE <<>>)

generate_log_summary(lg) ==
    <<[part |-> "Session logged", events |-> Len(lg.events), errors |-> Len(lg.errors)]>>
    \o (IF lg.events # <<>>
        THEN <<[part |-> "Event breakdown",
                items |-> CountKinds([i \in 1..Len(lg.events) |->
                                        EventTypeValue[lg.events[i].type]], <<>>)]>>
        ELSE <<>>)
    \o (IF lg.errors # <<>>
        THEN <<[part |-> "Error breakdown",
                items |-> CountKinds([i \in 1..Len(lg.errors) |-> lg.errors[i].type], <<>>)]>>
        ELSE <<>>)
    \o (IF lg.console_logs # <<>>
        THEN <<[part |-> "Console output", entries |-> Len(lg.console_logs)]>>
        ELSE <<>>)

\* DebugSessionManager._generate_recommendations
ClickThreshold_Nine == 10 - 1
ClickThreshold == 10

generate_recommendations_Elif(lg) ==
    LET js == CountOfType(lg.errors, "javascript_error")
        net == CountOfType(lg.errors, "network_error")
        ext == CountOfType(lg.errors, "extension_error")
        clicks == CountOfType(lg.events, "CLICK")
    IN IF js > 0 THEN <<[rule |-> "javascript_error", count |-> js]>>
       ELSE IF net > 0 THEN <<[rule |-> "network_error", count |-> net]>>
       ELSE IF ext > 0 THEN <<[rule |-> "extension_error", count |-> ext]>>
       ELSE IF clicks > ClickThreshold THEN <<[rule |-> "clicks"]>> ELSE <<>>

generate_recommendations(lg) ==
    LET js == CountOfType(lg.errors, "javascript_error")
        net == CountOfType(lg.errors, "network_error")
        ext == CountOfType(lg.errors, "extension_error")
        clicks == CountOfType(lg.events, "CLICK")
    IN (IF js > 0 THEN <<[rule |-> "javascript_error", count |-> js]>> ELSE <<>>)
       \o (IF net > 0 THEN <<[rule |-> "network_error", count |-> net]>> ELSE <<>>)
       \o (IF ext > 0 THEN <<[rule |-> "extension_error", count |-> ext]>> ELSE <<>>)
       \o (IF clicks > ClickThreshold THEN <<[rule |-> "clicks"]>> ELSE <<>>)

\* LogAnalysis(...) returned by analyze_logs_for_ai
LogAnalysis(session_id, lg, now) ==
    [session_id |-> session_id,
     summary |-> generate_log_summary(lg),
     errors |-> lg.errors,
     user_actions |-> lg.events,
     console_output |-> lg.console_logs,
     recommendations |-> generate_recommendations(lg),
     timestamp |-> now]

\* ------------------------------------------------------------------- state
Init ==
    /\ loggers = <<>>
    /\ active_sessions = EmptyDict
    /\ debug_sessions = EmptyDict
    /\ current_debug_session = None
    /\ files = EmptyDict
    /\ pending = <<>>
    /\ fired = 0
    /\ clock = 0
    /\ browser_manager = None
    /\ outcome = [op |-> "init", status |-> "returned"]

\* DebugSessionManager.start_debug_session
DSM_start_debug_session(session_id, extension_id) ==
    LET logger == NewLogger(session_id, extension_id)
        debug_session == DebugSession(session_id, extension_id, logger, utcnow)
    IN /\ active_sessions' = DictSet(active_sessions, session_id, Len(loggers) + 1)
       /\ debug_sessions' = DictSet(debug_sessions, session_id, debug_session)
       /\ loggers' = Append(loggers, start_logging(logger))
       /\ outcome' = [op |-> "start_debug_session", session_id |-> session_id,
                      was_registered |-> session_id \in DOMAIN active_sessions,
                      status |-> "returned", value |-> debug_session]

\* BrowserManager.start_with_extension, step 6: the debug session of the
\* freshly loaded extension becomes the current one.
StartWithExtension(maxLoggers, session_id, extension_id) ==
    /\ Len(loggers) < maxLoggers
    /\ DSM_start_debug_session(session_id, extension_id)
    /\ current_debug_session' = session_id
    /\ browser_manager' = "BrowserManager"
    /\ UNCHANGED <<files, pending, fired, clock>>

\* the update of the DebugSession handle in stop_debug_session
update_debug_session_NoCounts(ds, session_id, logger, now) ==
    IF session_id \in DOMAIN ds
    THEN [ds EXCEPT ![session_id] = [@ EXCEPT !.is_active = FALSE, !.updated_at = now]]
    ELSE ds

update_debug_session(ds, session_id, logger, now) ==
    IF session_id \in DOMAIN ds
    THEN [ds EXCEPT ![session_id] =
            [@ EXCEPT !.is_active = FALSE, !.updated_at = now,
                      !.events_count = Len(logger.events),
                      !.errors_count = Len(logger.errors)]]
    ELSE ds

\* DebugSessionManager.stop_debug_session; stop_logging sets the flag and
\* saves, and an exception of the save leaves the rest of the method undone.
DSM_stop_registered(session_id, io) ==
    LET i == active_sessions[session_id]
        logger == stop_logging_flag(loggers[i])
    IN /\ loggers' = [loggers EXCEPT ![i] = logger]
       /\ files' = save_logs(files, logger, io, utcnow)
       /\ IF save_logs_raises(io)
          THEN UNCHANGED <<debug_sessions, active_sessions>>
          ELSE /\ debug_sessions' =
                     update_debug_session(debug_sessions, session_id, logger, utcnow)
               /\ active_sessions' = DictDel(active_sessions, session_id)

DSM_stop_debug_session_ByHandle(session_id, io) ==
    IF session_id \in DOMAIN active_sessions
    THEN DSM_stop_registered(session_id, io)
    ELSE /\ debug_sessions' =
               update_debug_session(debug_sessions, session_id,
                                    NewLogger(session_id, None), utcnow)
         /\ UNCHANGED <<loggers, files, active_sessions>>

DSM_stop_debug_session(session_id, io) ==
    IF session_id \in DOMAIN active_sessions
    THEN DSM_stop_registered(session_id, io)
    ELSE UNCHANGED <<loggers, files, debug_sessions, active_sessions>>

DSM_stop_raises(session_id, io) ==
    session_id \in DOMAIN active_sessions /\ save_logs_raises(io)

\* BrowserManager.stop_debug_session(session_id=None)
StopDebugSession(arg, io) ==
    LET session_id == IF arg = None /\ current_debug_session # None
                      THEN current_debug_session ELSE arg
    IN /\ IF session_id # None
          THEN /\ DSM_stop_debug_session(session_id, io)
               /\ current_debug_session' =
                     IF ~DSM_stop_raises(session_id, io)
                        /\ current_debug_session = session_id
                     THEN None ELSE current_debug_session
          ELSE UNCHANGED <<loggers, files, debug_sessions, active_sessions,
                           current_debug_session>>
       /\ outcome' = [op |-> "stop_debug_session", session_id |-> session_id,
                      was_registered |-> session_id \in DOMAIN active_sessions,
                      logger |-> get_session_logs(session_id),
                      status |-> IF session_id # None /\ DSM_stop_raises(session_id, io)
                                 THEN "raised" ELSE "returned"]
       /\ UNCHANGED <<pending, fired, clock, browser_manager>>

\* DebugSessionManager.analyze_logs_for_ai
analyze_logs_for_ai_Default(session_id) ==
    LET logger == get_session_logs(session_id)
    IN [op |-> "analyze_logs_for_ai", session_id |-> session_id,
        status |-> "returned",
        value |-> LogAnalysis(session_id,
                              IF logger = 0 THEN NewLogger(session_id, None)
                              ELSE loggers[logger], utcnow)]

analyze_logs_for_ai(session_id) ==
    LET logger == get_session_logs(session_id)
    IN IF logger = 0
       THEN [op |-> "analyze_logs_for_ai", session_id |-> session_id,
             status |-> "raised", exception |-> "ValueError"]
       ELSE [op |-> "analyze_logs_for_ai", session_id |-> session_id,
             status |-> "returned",
             value |-> LogAnalysis(session_id, loggers[logger], utcnow)]

AnalyzeLogs(session_id) ==
    /\ outcome' = analyze_logs_for_ai(session_id)
    /\ UNCHANGED <<loggers, active_sessions, debug_sessions, current_debug_session,
                   files, pending, fired, clock, browser_manager>>

\* The browser fires a native callback at the listeners of logger i; the
\* emitter schedules the listener's coroutine.  logging_when_fired remembers
\* the logger's flag at that moment, fired_at the callback's place among the
\* callbacks fired.
Emit_Front(maxCallbacks, i, cb) ==
    /\ fired < maxCallbacks
    /\ i \in DOMAIN loggers
    /\ pending' = <<[logger |-> i, cb |-> cb,
                     logging_when_fired |-> loggers[i].is_logging,
                     fired_at |-> fired + 1]>> \o pending
    /\ fired' = fired + 1
    /\ outcome' = [op |-> "emit", status |-> "returned"]
    /\ UNCHANGED <<loggers, active_sessions, debug_sessions, current_debug_session,
                   files, clock, browser_manager>>

Emit(maxCallbacks, i, cb) ==
    /\ fired < maxCallbacks
    /\ i \in DOMAIN loggers
    /\ pending' = Append(pending, [logger |-> i, cb |-> cb,
                                   logging_when_fired |-> loggers[i].is_logging,
                                   fired_at |-> fired + 1])
    /\ fired' = fired + 1
    /\ outcome' = [op |-> "emit", status |-> "returned"]
    /\ UNCHANGED <<loggers, active_sessions, debug_sessions, current_debug_session,
                   files, clock, browser_manager>>

\* The event loop runs the oldest scheduled listener coroutine to completion;
\* after is the logger as the coroutine leaves it.
HeadLogger == loggers[Head(pending).logger]
HeadCb == Head(pending).cb

RunTask(handler, after, status, notified) ==
    /\ pending # <<>>
    /\ Head(pending).cb.handler = handler
    /\ loggers' = [loggers EXCEPT ![Head(pending).logger] = after]
    /\ outcome' = [op |-> "handler", handler |-> handler,
                   logger |-> Head(pending).logger, cb |-> Head(pending).cb,
                   logging_when_fired |-> Head(pending).logging_when_fired,
                   fired_at |-> Head(pending).fired_at,
                   status |-> status, notified |-> notified]
    /\ pending' = Tail(pending)
    /\ clock' = clock + 1
    /\ UNCHANGED <<active_sessions, debug_sessions, current_debug_session, files, fired, browser_manager>>

\* the lambdas of _setup_page_listeners / _setup_context_listeners
page_listener_NoGuard(lg, cb, id, now) ==
    log_event_NoGuard(lg, PageListeners[cb.name].type, PageListeners[cb.name].data, id, now)

page_listener(lg, cb, id, now) ==
    log_event(lg, PageListeners[cb.name].type, PageListeners[cb.name].data, id, now)

\* calling a lambda with a number of arguments it does not take raises
\* TypeError before its body runs; nothing around the call catches it
page_listener_raises(cb) == EmittedArgs[cb.name] # ListenerParams[cb.name]

RunPageListener ==
    /\ pending # <<>>
    /\ HeadCb.handler = "page_event"
    /\ IF page_listener_raises(HeadCb)
       THEN RunTask("page_event", HeadLogger, "raised", <<>>)
       ELSE \E raising \in Raising(HeadLogger) :
               RunTask("page_event", page_listener(HeadLogger, HeadCb, clock + 1, utcnow),
                       "returned", notify_callbacks(HeadLogger, clock + 1, raising))
RunHandleConsole ==
    /\ pending # <<>>
    /\ \E raising \in Raising(HeadLogger) :
          RunTask("console", handle_console(HeadLogger, HeadCb, clock + 1, utcnow),
                  "returned", notify_callbacks(HeadLogger, clock + 1, raising))
RunHandleError_LiveCount ==
    /\ pending # <<>>
    /\ Head(pending).cb.handler = "pageerror"
    /\ LET after == handle_error(HeadLogger, HeadCb, clock + 1, utcnow)
       IN /\ loggers' = [loggers EXCEPT ![Head(pending).logger] = after]
          /\ debug_sessions' =
                [s \in DOMAIN debug_sessions |->
                    IF s = after.session_id
                    THEN [debug_sessions[s] EXCEPT !.errors_count = Len(after.errors)]
                    ELSE debug_sessions[s]]
    /\ outcome' = [op |-> "handler", handler |-> "pageerror",
                   logger |-> Head(pending).logger, cb |-> Head(pending).cb,
                   logging_when_fired |-> Head(pending).logging_when_fired,
                   fired_at |-> Head(pending).fired_at,
                   status |-> "returned", notified |-> <<>>]
    /\ pending' = Tail(pending)
    /\ clock' = clock + 1
    /\ UNCHANGED <<active_sessions, current_debug_session, files, fired, browser_manager>>

RunHandleError ==
    RunTask("pageerror", handle_error(HeadLogger, HeadCb, clock + 1, utcnow),
            "returned", <<>>)
RunHandleRequestFailure ==
    RunTask("requestfailed", handle_request_failure(HeadLogger, HeadCb, clock + 1, utcnow),
            "returned", <<>>)

\* a caller that holds logger i adds an observer to it
AddEventCallback(maxObservers, i, callback) ==
    /\ i \in DOMAIN loggers
    /\ Len(loggers[i].event_callbacks) < maxObservers
    /\ loggers' = [loggers EXCEPT ![i] = add_event_callback(@, callback)]
    /\ outcome' = [op |-> "add_event_callback", status |-> "returned"]
    /\ UNCHANGED <<active_sessions, debug_sessions, current_debug_session,
                   files, pending, fired, clock, browser_manager>>

\* Spec: the registry under any calls, for several session ids and loggers;
\* the browser delivers RegistryCallbacks only, so the console and
\* request-failure handlers have nothing to run here (they run in SpecLog).
Next ==
    \/ \E s \in SessionIds, e \in ExtensionIds : StartWithExtension(MaxLoggers, s, e)
    \/ \E a \in SessionIds \cup {None}, io \in IoOutcomes : StopDebugSession(a, io)
    \/ \E s \in SessionIds : AnalyzeLogs(s)
    \/ \E i \in DOMAIN loggers, cb \in RegistryCallbacks : Emit(MaxCallbacks, i, cb)
    \/ RunPageListener
    \/ RunHandleError

Spec == Init /\ [][Next]_vars

\* SpecLog: the life of one session "s1" of extension "e1" and its one
\* logger, with longer callback sequences.
NextLog ==
    \/ StartWithExtension(1, "s1", "e1")
    \/ \E a \in {"s1", None}, io \in IoOutcomes : StopDebugSession(a, io)
    \/ \E cb \in NativeCallbacks : Emit(MaxLogCallbacks, 1, cb)
    \/ RunPageListener
    \/ RunHandleConsole
    \/ RunHandleError
    \/ RunHandleRequestFailure

SpecLog == Init /\ [][NextLog]_vars

\* SpecObs: one session "s1" whose logger is given observers, and whose
\* listeners are called for a click, for the page's DOMContentLoaded and for a
\* console message.
NextObs ==
    \/ StartWithExtension(1, "s1", "e1")
    \/ \E o \in ObserverCallbacks : AddEventCallback(MaxObservers, 1, o)
    \/ StopDebugSession("s1", "ok")
    \/ \E cb \in ObsCallbacks : Emit(MaxObsCallbacks, 1, cb)
    \/ RunPageListener
    \/ RunHandleConsole

SpecObs == Init /\ [][NextObs]_vars

\* ------------------------------------------- BrowserManager and API routes
\* self.current_debug_session.id when no session id is passed
SessionIdOr(arg) ==
    IF arg = None /\ current_debug_session # None THEN current_debug_session ELSE arg

\* BrowserManager.get_debug_summary: the logger's summary, {} when the
\* session has no registered logger
BM_get_debug_summary(arg) ==
    LET session_id == SessionIdOr(arg)
        logger == IF session_id # None THEN get_session_logs(session_id) ELSE 0
    IN [op |-> "get_debug_summary", session_id |-> session_id, logger |-> logger,
        status |-> "returned",
        value |-> IF logger # 0 THEN get_log_summary(loggers[logger]) ELSE EmptyDict]

GetDebugSummary_Stops(arg) ==
    /\ outcome' = BM_get_debug_summary(arg)
    /\ loggers' = [i \in DOMAIN loggers |->
                     IF i = BM_get_debug_summary(arg).logger
                     THEN stop_logging_flag(loggers[i]) ELSE loggers[i]]
    /\ UNCHANGED <<active_sessions, debug_sessions, current_debug_session,
                   files, pending, fired, clock, browser_manager>>

GetDebugSummary(arg) ==
    /\ outcome' = BM_get_debug_summary(arg)
    /\ UNCHANGED <<loggers, active_sessions, debug_sessions, current_debug_session,
                   files, pending, fired, clock, browser_manager>>

\* BrowserManager.get_debug_logs: any exception of the analysis is printed
\* and None is returned
BM_get_debug_logs(arg) ==
    LET session_id == SessionIdOr(arg)
    IN IF session_id # None /\ analyze_logs_for_ai(session_id).status = "returned"
       THEN [is_none |-> FALSE, value |-> analyze_logs_for_ai(session_id).value]
       ELSE [is_none |-> TRUE]

\* routes.py: the global _browser_manager is the BrowserManager whose
\* start_with_extension load_extension_manual has called; None before that.
browser_manager_exists == browser_manager # None

\* fastapi.HTTPException(status_code, detail), a subclass of Exception
HTTPException(status_code, detail) ==
    [status |-> "raised", exception |-> "HTTPException",
     status_code |-> status_code, detail |-> detail]

\* GET /browser/debug-logs/{session_id}: the body of the try block, then the
\* `except Exception` clause that answers whatever the body raised with a 500.
get_debug_logs_try(session_id) ==
    IF ~browser_manager_exists
    THEN HTTPException(404, "No active browser session")
    ELSE IF BM_get_debug_logs(session_id).is_none
         THEN HTTPException(404, "No debug logs found for session")
         ELSE [status |-> "returned", status_code |-> 200,
               body |-> [status |-> "success", session_id |-> session_id,
                         logs |-> BM_get_debug_logs(session_id).value]]

get_debug_logs(session_id) ==
    LET tried == get_debug_logs_try(session_id)
    IN IF tried.status = "raised"
       THEN HTTPException(500, <<"Error getting debug logs: ", tried.detail>>)
       ELSE tried

GetDebugLogs(session_id) ==
    /\ outcome' = [op |-> "GET /browser/debug-logs", session_id |-> session_id,
                   was_registered |-> session_id \in DOMAIN active_sessions,
                   response |-> get_debug_logs(session_id)]
    /\ UNCHANGED <<loggers, active_sessions, debug_sessions, current_debug_session,
                   files, pending, fired, clock, browser_manager>>

\* SpecApi: the debug session of one loaded extension as the API routes and
\* the BrowserManager wrappers see it, with requests for "s1" and for "s2",
\* which is never started.
NextApi ==
    \/ StartWithExtension(MaxApiLoggers, "s1", "e1")
    \/ \E a \in {"s1", None}, io \in IoOutcomes : StopDebugSession(a, io)
    \/ \E i \in DOMAIN loggers, cb \in RegistryCallbacks : Emit(MaxApiCallbacks, i, cb)
    \/ RunPageListener
    \/ RunHandleError
    \/ \E a \in SessionIds \cup {None} : GetDebugSummary(a)
    \/ \E s \in SessionIds : GetDebugLogs(s)

SpecApi == Init /\ [][NextApi]_vars

\* BrowserManager.stop: closes the browser context and playwright and removes
\* the user data directory; the loggers and the files under logs/ after it.
BM_stop(lgs, fs) == [loggers |-> lgs, files |-> fs]

\* POST /browser/close.  active_sessions, debug_sessions and
\* current_debug_session are attributes of the manager _browser_manager
\* refers to; with no manager there is none of them.
CloseBrowser ==
    /\ IF browser_manager # None
       THEN /\ loggers' = BM_stop(loggers, files).loggers
            /\ files' = BM_stop(loggers, files).files
            /\ browser_manager' = None
            /\ active_sessions' = EmptyDict
            /\ debug_sessions' = EmptyDict
            /\ current_debug_session' = None
            /\ outcome' = [op |-> "POST /browser/close", status |-> "success"]
       ELSE /\ outcome' = [op |-> "POST /browser/close", status |-> "info"]
            /\ UNCHANGED <<loggers, files, browser_manager, active_sessions,
                           debug_sessions, current_debug_session>>
    /\ UNCHANGED <<pending, fired, clock>>

\* POST /browser/load-extension-manual with enable_debug left at its default,
\* for an extension whose service worker appears: the existing manager is
\* stopped, a new BrowserManager with a new DebugSessionManager replaces it,
\* and its start_with_extension starts the debug session session_id.
LoadExtensionManual(session_id, extension_id) ==
    LET stopped == IF browser_manager # None THEN BM_stop(loggers, files)
                   ELSE [loggers |-> loggers, files |-> files]
        logger == NewLogger(session_id, extension_id)
        debug_session == DebugSession(session_id, extension_id, logger, utcnow)
    IN /\ Len(loggers) < MaxBrowserLoggers
       /\ browser_manager' = "BrowserManager"
       /\ loggers' = Append(stopped.loggers, start_logging(logger))
       /\ files' = stopped.files
       /\ active_sessions' = DictSet(EmptyDict, session_id, Len(loggers) + 1)
       /\ debug_sessions' = DictSet(EmptyDict, session_id, debug_session)
       /\ current_debug_session' = session_id
       /\ outcome' = [op |-> "POST /browser/load-extension-manual",
                      status |-> "success", debug_session_id |-> session_id]
       /\ UNCHANGED <<pending, fired, clock>>

\* SpecBrowser: the routes that create, replace and close the browser
\* manager, the stop of a debug session of the manager in place, and the
\* callbacks of the page of that manager's browser.
NextBrowser ==
    \/ \E s \in SessionIds : LoadExtensionManual(s, "e1")
    \/ CloseBrowser
    \/ browser_manager # None
       /\ \E s \in SessionIds, io \in IoOutcomes : StopDebugSession(s, io)
    \/ browser_manager # None
       /\ \E cb \in RegistryCallbacks : Emit(MaxBrowserCallbacks, Len(loggers), cb)
    \/ RunPageListener
    \/ RunHandleError

SpecBrowser == Init /\ [][NextBrowser]_vars

\* --------------------------------------------------------------- CLIHandler
\* Ways a run of the Gemini CLI inside _call_gemini_cli ends
CliOutcomes == {"ok", "not_found", "not_accessible", "exited_immediately", "nonzero_exit"}

\* File contents; the icons are the only files that are not UTF-8 text.
FallbackManifestText == "fallback manifest.json"
GeneratedManifestText == "generated manifest.json"
PngBytes == "png bytes"
is_utf8(content) == content # PngBytes

\* json.loads of the manifest texts
json_loads ==
    (FallbackManifestText :>
        [manifest_version |-> 3, name |-> "Chrome Extension", version |-> "1.0.0",
         description |-> "A Chrome extension", permissions |-> <<"activeTab">>])
    @@ (GeneratedManifestText :>
        [manifest_version |-> 3, name |-> "Generated", version |-> "1.0.0",
         description |-> "A generated extension", permissions |-> <<>>])

\* the three files _create_fallback_extension writes
FallbackFiles ==
    ("manifest.json" :> FallbackManifestText)
    @@ ("popup.html" :> "fallback popup.html")
    @@ ("popup.js" :> "fallback popup.js")

\* what a successful CLI run leaves in the working directory
GeneratedFiles ==
    {("manifest.json" :> GeneratedManifestText),
     ("manifest.json" :> GeneratedManifestText) @@ ("content.js" :> "generated content.js")}

IconFiles == {"icon16.png", "icon48.png", "icon128.png"}

\* extension_dir = Path("extensions") / session_id, and the files under it
extension_dir(session_id) == <<"extensions", session_id>>
rglob(fs, dir) == {p \in DOMAIN fs : <<p[1], p[2]>> = dir}

write_files(fs, dir, contents) ==
    LET paths == {<<dir[1], dir[2], n>> : n \in DOMAIN contents}
    IN [p \in DOMAIN fs \cup paths |->
           IF p \in paths THEN [state |-> "written", data |-> contents[p[3]]] ELSE fs[p]]

\* CLIHandler._copy_custom_icons: copies the icons that exist in
\* dummy_extension; never raises
copy_custom_icons(fs, dir, icons_exist) ==
    IF icons_exist THEN write_files(fs, dir, [n \in IconFiles |-> PngBytes]) ELSE fs

\* CLIHandler._create_fallback_extension: the file system after the call and
\* the list of names it returns
create_fallback_extension(fs, dir, icons_exist) ==
    [fs |-> copy_custom_icons(write_files(fs, dir, FallbackFiles), dir, icons_exist),
     value |-> [type |-> "List[str]", names |-> <<"manifest.json", "popup.html", "popup.js">>]]

\* CLIHandler._call_gemini_cli: the file system after the call; every failure
\* of the CLI ends in _create_fallback_extension
call_gemini_cli(fs, dir, cli, generated, icons_exist) ==
    IF cli = "ok" THEN write_files(fs, dir, generated)
    ELSE create_fallback_extension(fs, dir, icons_exist).fs

\* the loop that reads the files of the directory as UTF-8 text
read_raises(fs, dir, read_fault) ==
    \/ read_fault /\ rglob(fs, dir) # {}
    \/ \E p \in rglob(fs, dir) : ~is_utf8(fs[p].data)

read_files(fs, dir) ==
    [n \in {p[3] : p \in rglob(fs, dir)} |-> fs[<<dir[1], dir[2], n>>].data]

\* Extension(...) and ExtensionManifest(...) built from the files read
Extension(session_id, files_read) ==
    LET manifest_data == IF "manifest.json" \in DOMAIN files_read
                         THEN json_loads[files_read["manifest.json"]]
                         ELSE [name |-> "Chrome Extension",
                               description |-> "A Chrome extension", permissions |-> <<>>]
    IN [type |-> "Extension", id |-> session_id,
        name |-> manifest_data.name, description |-> manifest_data.description,
        manifest |-> [name |-> manifest_data.name,
                      description |-> manifest_data.description,
                      permissions |-> manifest_data.permissions,
                      host_permissions |-> <<>>],
        files |-> files_read]

\* CLIHandler.generate_extension_with_gemini_cli for a session id
GenerateExtension(session_id, cli, generated, read_fault, icons_exist) ==
    LET dir == extension_dir(session_id)
        called == call_gemini_cli(files, dir, cli, generated, icons_exist)
        raised == read_raises(called, dir, read_fault)
        fallback == create_fallback_extension(called, dir, icons_exist)
    IN /\ files' = IF raised THEN fallback.fs
                   ELSE copy_custom_icons(called, dir, icons_exist)
       /\ outcome' = [op |-> "generate_extension_with_gemini_cli",
                      session_id |-> session_id, cli |-> cli, read_raised |-> raised,
                      status |-> "returned",
                      value |-> IF raised THEN fallback.value
                                ELSE Extension(session_id, read_files(called, dir))]
       /\ UNCHANGED <<loggers, active_sessions, debug_sessions, current_debug_session,
                      pending, fired, clock, browser_manager>>

\* SpecGen: extensions generated, again and again, for two chat sessions
\* whose directories persist between the calls.
NextGen ==
    \E session_id \in SessionIds, cli \in CliOutcomes, generated \in GeneratedFiles,
       read_fault \in BOOLEAN, icons_exist \in BOOLEAN :
        GenerateExtension(session_id, cli, generated, read_fault, icons_exist)

SpecGen == Init /\ [][NextGen]_vars

\* SpecAnalyze: analyze_logs_for_ai as a function of the log.  The session
\* "s1" is registered and its logger has handled a run of native callbacks:
\* request failures, page errors, and clicks with service-worker callbacks
\* and key presses after the first `split` of them; or that run backwards.
Repeat(cb, n) == [i \in 1..n |-> cb]

handle_ServiceWorkerAsError(lg, cb, id, now) ==
    CASE cb.handler = "page_event" /\ cb.name = "serviceworker" ->
            [lg EXCEPT !.errors = Append(@,
                BrowserError(id, now, "extension_error", "service_worker_event", None,
                             "worker_url", "error", lg))]
      [] cb.handler = "page_event" /\ cb.name # "serviceworker" ->
            page_listener(lg, cb, id, now)
      [] cb.handler = "console" -> handle_console(lg, cb, id, now)
      [] cb.handler = "pageerror" -> handle_error(lg, cb, id, now)
      [] cb.handler = "requestfailed" -> handle_request_failure(lg, cb, id, now)

handle(lg, cb, id, now) ==
    CASE cb.handler = "page_event" -> page_listener(lg, cb, id, now)
      [] cb.handler = "console" -> handle_console(lg, cb, id, now)
      [] cb.handler = "pageerror" -> handle_error(lg, cb, id, now)
      [] cb.handler = "requestfailed" -> handle_request_failure(lg, cb, id, now)

RECURSIVE HandleAll(_, _, _)
HandleAll(lg, cbs, n) ==
    IF cbs = <<>> THEN lg
    ELSE HandleAll(handle(lg, Head(cbs), n + 1, utcnow), Tail(cbs), n + 1)

OtherCallbacks(others) ==
    [i \in 1..others |->
        [handler |-> "page_event",
         name |-> IF i % 2 = 1 THEN "serviceworker" ELSE "keydown"]]

HandledCallbacks(net, js, clicks, others, split, reversed) ==
    LET forward ==
            Repeat([handler |-> "requestfailed", failure |-> "net::ERR_FAILED",
                    url |-> "u"], net)
            \o Repeat([handler |-> "pageerror", message |-> "boom", stack |-> "trace"], js)
            \o Repeat([handler |-> "page_event", name |-> "click"], split)
            \o OtherCallbacks(others)
            \o Repeat([handler |-> "page_event", name |-> "click"], clicks - split)
    IN IF reversed THEN Reverse(forward) ELSE forward

InitAnalyze ==
    \E net \in 0..MaxNetErrors, js \in 0..MaxJsErrors,
       clicks \in 0..MaxClicks, others \in 0..MaxOtherEvents, reversed \in BOOLEAN :
      \E split \in IF others = 0 THEN {clicks} ELSE 0..clicks :
        LET cbs == HandledCallbacks(net, js, clicks, others, split, reversed)
            logger == start_logging(NewLogger("s1", "e1"))
        IN /\ loggers = <<HandleAll(logger, cbs, 0)>>
           /\ active_sessions = DictSet(EmptyDict, "s1", 1)
           /\ debug_sessions = DictSet(EmptyDict, "s1", DebugSession("s1", "e1", logger, utcnow))
           /\ current_debug_session = "s1"
           /\ files = EmptyDict
           /\ pending = <<>>
           /\ fired = Len(cbs)
           /\ clock = Len(cbs)
           /\ browser_manager = "BrowserManager"
           /\ outcome = [op |-> "init", status |-> "returned"]

NextAnalyze == \E s \in SessionIds : AnalyzeLogs(s)

SpecAnalyze == InitAnalyze /\ [][NextAnalyze]_vars

\* ------------------------------------------------------------------ claims
IsPrefix(a, b) == Len(a) <= Len(b) /\ \A i \in 1..Len(a) : a[i] = b[i]
Last(seq) == seq[Len(seq)]
StopReturned ==
    outcome.op = "stop_debug_session" /\ outcome.was_registered
    /\ outcome.status = "returned"

\* C1: an event whose callback fired while the log was not logging is dropped:
\* the step that handles it raises nothing and leaves the event sequence as it
\* was, and no step ever changes the event sequence of a log that is not logging.
C1_NotLoggingEventDropped ==
    [][/\ \A i \in DOMAIN loggers :
            ~loggers[i].is_logging => loggers'[i].events = loggers[i].events
       /\ (outcome'.op = "handler" /\ outcome'.handler \in {"page_event", "console"}
           /\ ~outcome'.logging_when_fired)
          => /\ outcome'.status = "returned"
             /\ loggers'[outcome'.logger].events = loggers[outcome'.logger].events]_vars

\* C1 witness: a click fired after the stop has been handled, and the log
\* still holds exactly the event it recorded while logging.
C1_Witness ==
    /\ outcome.op = "handler" /\ outcome.handler = "page_event"
    /\ ~outcome.logging_when_fired
    /\ ~loggers[outcome.logger].is_logging
    /\ Len(loggers[outcome.logger].events) = 1

\* C2: the handler of a page error, and of a request failure that carries a
\* failure, appends exactly one error of its kind to the error sequence
\* whatever the logging flag is, and no step removes or reorders errors.
C2_ErrorsAlwaysAppended ==
    [][/\ \A i \in DOMAIN loggers : IsPrefix(loggers[i].errors, loggers'[i].errors)
       /\ (outcome'.op = "handler"
           /\ \/ outcome'.handler = "pageerror"
              \/ outcome'.handler = "requestfailed" /\ outcome'.cb.failure # None)
          => LET before == loggers[outcome'.logger].errors
                 after == loggers'[outcome'.logger].errors
             IN /\ Len(after) = Len(before) + 1
                /\ Last(after).type = IF outcome'.handler = "pageerror"
                                      THEN "javascript_error" ELSE "network_error"
                /\ Last(after).session_id = loggers[outcome'.logger].session_id]_vars

\* C2 witness: a page error handled after the stop is in the error sequence of
\* the stopped log, behind an error recorded earlier.
C2_Witness ==
    /\ outcome.op = "handler" /\ outcome.handler = "pageerror"
    /\ ~loggers[outcome.logger].is_logging
    /\ ~outcome.logging_when_fired
    /\ Len(loggers[outcome.logger].errors) = 2

\* C3: start_debug_session on a session id that is already registered fails
\* with a conflict and leaves the registered logger and handle unchanged.
C3_DuplicateStartRejected ==
    [][(outcome'.op = "start_debug_session" /\ outcome'.was_registered)
       => /\ outcome'.status = "raised"
          /\ active_sessions' = active_sessions
          /\ debug_sessions' = debug_sessions]_vars

\* C4: after stop_debug_session(s) returned for a registered s, its logger is
\* not logging, its file holds the flushed log, the handle is inactive with
\* counts equal to the lengths of the logger's sequences, and s is unregistered.
C4_StopPostcondition ==
    StopReturned =>
        LET s == outcome.session_id
            lg == loggers[outcome.logger]
        IN /\ ~lg.is_logging
           /\ lg.log_file_path \in DOMAIN files
           /\ files[lg.log_file_path] = [state |-> "written", data |-> LogData(lg, utcnow)]
           /\ ~debug_sessions[s].is_active
           /\ debug_sessions[s].events_count = Len(lg.events)
           /\ debug_sessions[s].errors_count = Len(lg.errors)
           /\ s \notin DOMAIN active_sessions

\* C4 witness: a stop returned for a session whose log held an event.
C4_Witness ==
    /\ StopReturned
    /\ debug_sessions[outcome.session_id].events_count = 1
    /\ debug_sessions[outcome.session_id].errors_count = 0

\* C5: stop_debug_session on an unregistered session id returns normally and
\* changes no log, file, handle, registry entry or current session.
C5_StopUnregisteredNoOp ==
    [][(outcome'.op = "stop_debug_session" /\ ~outcome'.was_registered)
       => /\ outcome'.status = "returned"
          /\ UNCHANGED <<loggers, files, debug_sessions, active_sessions,
                         current_debug_session, pending>>]_vars

\* C5 witness: a second stop of a session already stopped, whose handle keeps
\* its final counts.
C5_Witness ==
    /\ outcome.op = "stop_debug_session" /\ ~outcome.was_registered
    /\ outcome.session_id \in DOMAIN debug_sessions
    /\ ~debug_sessions[outcome.session_id].is_active
    /\ debug_sessions[outcome.session_id].events_count = 1

\* C6: analyze on a session id with no registered log raises the not-found
\* error instead of returning an analysis, and changes no state.
C6_AnalyzeNotFound ==
    [][outcome'.op = "analyze_logs_for_ai"
       => /\ outcome'.session_id \notin DOMAIN active_sessions
             => outcome'.status = "raised" /\ outcome'.exception = "ValueError"
          /\ UNCHANGED <<loggers, files, debug_sessions, active_sessions,
                         current_debug_session, pending>>]_vars

\* C6 witness: analyze raised for a session that had been started and stopped.
C6_Witness ==
    /\ outcome.op = "analyze_logs_for_ai" /\ outcome.status = "raised"
    /\ outcome.session_id \in DOMAIN debug_sessions
    /\ loggers # <<>>

\* C7: for a session whose handle says it was stopped, get_session_logs is
\* absent and analyze raises not-found, while its file holds the events, and
\* the errors and console lines up to the stop, of a stopped logger of it.
C7_StoppedSessionOnlyOnFile ==
    \A s \in DOMAIN debug_sessions :
        ~debug_sessions[s].is_active =>
            /\ get_session_logs(s) = 0
            /\ analyze_logs_for_ai(s).status = "raised"
            /\ log_file_path(s) \in DOMAIN files
            /\ LET f == ParseFile(files[log_file_path(s)])
               IN /\ f.ok
                  /\ \E i \in DOMAIN loggers :
                        /\ loggers[i].session_id = s /\ ~loggers[i].is_logging
                        /\ f.data.events = DumpEvents(loggers[i].events)
                        /\ IsPrefix(f.data.errors, DumpErrors(loggers[i].errors))
                        /\ IsPrefix(f.data.console_logs, loggers[i].console_logs)
                        /\ Len(f.data.errors) = debug_sessions[s].errors_count

\* C7 witness: analyze was asked for a stopped session whose log had recorded
\* one event.
C7_Witness ==
    \E s \in DOMAIN debug_sessions :
        /\ ~debug_sessions[s].is_active
        /\ debug_sessions[s].events_count = 1
        /\ outcome.op = "analyze_logs_for_ai" /\ outcome.session_id = s

\* C8: a stop whose flush failed raises to the caller; a stop of a registered
\* session that returned has written the file.
C8_FlushFailureReported ==
    (outcome.op = "stop_debug_session" /\ outcome.was_registered)
    => LET path == loggers[outcome.logger].log_file_path
           written == /\ path \in DOMAIN files
                      /\ files[path].state = "written"
                      /\ files[path].data.events =
                            DumpEvents(loggers[outcome.logger].events)
       IN outcome.status = "returned" => written

\* C8 witness: a stop raised and the session file is truncated.
C8_Witness ==
    /\ outcome.op = "stop_debug_session" /\ outcome.was_registered
    /\ outcome.status = "raised"
    /\ loggers[outcome.logger].log_file_path \in DOMAIN files
    /\ files[loggers[outcome.logger].log_file_path].state = "truncated"

\* C9: in every written session file the summary totals equal the lengths of
\* the file's events, errors and console_logs arrays; the file of a log
\* without events and errors is written too, with total_events 0.
C9_FileSummaryConsistent ==
    /\ \A p \in DOMAIN files :
          LET f == ParseFile(files[p])
          IN f.ok => /\ f.data.summary.total_events = Len(f.data.events)
                     /\ f.data.summary.total_errors = Len(f.data.errors)
                     /\ f.data.summary.total_console_logs = Len(f.data.console_logs)
    /\ (StopReturned /\ loggers[outcome.logger].events = <<>>
        /\ loggers[outcome.logger].errors = <<>>)
       => LET f == ParseFile(files[loggers[outcome.logger].log_file_path])
          IN f.ok /\ f.data.summary.total_events = 0 /\ f.data.summary.total_errors = 0

\* C9 witness: a written file with two events, one error and at least one
\* console line.
C9_Witness ==
    \E p \in DOMAIN files :
        /\ files[p].state = "written"
        /\ files[p].data.summary.total_events = 2
        /\ files[p].data.summary.total_errors = 1
        /\ files[p].data.summary.total_console_logs >= 1

\* C10: the file written by a stop, parsed back, has the events and the errors
\* of the log at flush time: the same number, and position by position the
\* same id and the same kind.
C10_RoundTrip ==
    StopReturned =>
        LET lg == loggers[outcome.logger]
            f == ParseFile(files[lg.log_file_path])
        IN /\ f.ok
           /\ Len(f.data.events) = Len(lg.events)
           /\ Len(f.data.errors) = Len(lg.errors)
           /\ \A i \in 1..Len(lg.events) :
                 /\ f.data.events[i].id = lg.events[i].id
                 /\ f.data.events[i].type = EventTypeValue[lg.events[i].type]
           /\ \A i \in 1..Len(lg.errors) :
                 /\ f.data.errors[i].id = lg.errors[i].id
                 /\ f.data.errors[i].type = lg.errors[i].type

\* C10 witness: a stop flushed a log with two events of different kinds and an
\* error.
C10_Witness ==
    /\ StopReturned
    /\ Len(loggers[outcome.logger].events) = 2
    /\ loggers[outcome.logger].events[1].type # loggers[outcome.logger].events[2].type
    /\ Len(loggers[outcome.logger].errors) = 1

\* C11: a console message of error level is recorded as one console_error
\* event and no error: its handler leaves the error sequence as it was and,
\* while logging, appends exactly one CONSOLE_ERROR event; and after start of
\* "s1", two click callbacks, one console error message and a stop, the file
\* has summary.total_events 3 and summary.total_errors 0.
C11_Scenario ==
    /\ StopReturned /\ outcome.session_id = "s1"
    /\ fired = 3 /\ pending = <<>>
    /\ CountOfType(loggers[outcome.logger].events, "CLICK") = 2
    /\ CountOfType(loggers[outcome.logger].events, "CONSOLE_ERROR") = 1

C11_ConsoleErrorIsOneEvent ==
    [][/\ (outcome'.op = "handler" /\ outcome'.handler = "console"
           /\ outcome'.cb.type = "error")
          => LET before == loggers[outcome'.logger]
                 after == loggers'[outcome'.logger]
             IN /\ after.errors = before.errors
                /\ before.is_logging
                   => /\ Len(after.events) = Len(before.events) + 1
                      /\ Last(after.events).type = "CONSOLE_ERROR"
                      /\ EventTypeValue[Last(after.events).type] = "console_error"
       /\ C11_Scenario'
          => LET f == ParseFile(files'[log_file_path("s1")])
             IN /\ f.ok
                /\ f.data.summary.total_events = 3
                /\ f.data.summary.total_errors = 0]_vars

\* C11 witness: the stop of "s1" returned after two clicks and one console
\* error were recorded, and the file is written.
C11_Witness ==
    /\ C11_Scenario
    /\ files[log_file_path("s1")].state = "written"
    /\ files[log_file_path("s1")].data.summary.total_events = 3

\* C12: the per-kind breakdowns count what was recorded.  A new log reports 0
\* for every kind; a step that records an event of kind E while the log is
\* logging raises the count of E by exactly one, in get_log_summary and in the
\* analyzer's event breakdown, and leaves every other kind's count as it was;
\* every other step leaves the event sequence, hence every count, as it was;
\* and the counts over all kinds sum to the total event count.
KindOf(cb) ==
    IF cb.handler = "page_event" THEN PageListeners[cb.name].type
    ELSE IF cb.handler = "console"
         THEN (IF cb.type = "log" THEN "CONSOLE_LOG" ELSE "CONSOLE_ERROR")
         ELSE None

EventBreakdown(lg) ==
    LET parts == generate_log_summary(lg)
        at == {i \in 1..Len(parts) : parts[i].part = "Event breakdown"}
    IN IF at = {} THEN <<>> ELSE parts[CHOOSE i \in at : TRUE].items

BreakdownCount(items, k) ==
    LET at == {i \in 1..Len(items) : items[i][1] = k}
    IN IF at = {} THEN 0 ELSE items[CHOOSE i \in at : TRUE][2]

RECURSIVE SumOver(_, _)
SumOver(f, S) ==
    IF S = {} THEN 0
    ELSE LET x == CHOOSE y \in S : TRUE IN f[x] + SumOver(f, S \ {x})

CountsAfterRecording(before, after, kind) ==
    LET b == get_log_summary(before).event_types
        a == get_log_summary(after)
        bItems == EventBreakdown(before)
        aItems == EventBreakdown(after)
    IN /\ \A E \in EventType :
             LET v == EventTypeValue[E]
                 delta == IF kind = E THEN 1 ELSE 0
             IN /\ a.event_types[v] = b[v] + delta
                /\ BreakdownCount(aItems, v) = BreakdownCount(bItems, v) + delta
       /\ SumOver(a.event_types, DOMAIN a.event_types) = a.total_events
       /\ SumOver([j \in 1..Len(aItems) |-> aItems[j][2]], 1..Len(aItems))
          = Len(after.events)

Rules == <<"javascript_error", "network_error", "extension_error", "clicks">>

RuleHolds(rule, lg) ==
    IF rule = "clicks"
    THEN Cardinality({i \in 1..Len(lg.events) : lg.events[i].type = "CLICK"}) > 10
    ELSE \E i \in 1..Len(lg.errors) : lg.errors[i].type = rule

Analysed ==
    /\ outcome.op = "analyze_logs_for_ai" /\ outcome.status = "returned"
    /\ outcome.session_id \in DOMAIN active_sessions

AnalysedLog == loggers[active_sessions[outcome.session_id]]

C13_RecommendationsInRuleOrder ==
    Analysed =>
        LET lg == AnalysedLog
            recs == outcome.value.recommendations
            at(r) == {i \in 1..Len(recs) : recs[i].rule = r}
        IN /\ \A i \in 1..Len(recs) : \E k \in 1..Len(Rules) : recs[i].rule = Rules[k]
           /\ \A k \in 1..Len(Rules) :
                 Cardinality(at(Rules[k])) = IF RuleHolds(Rules[k], lg) THEN 1 ELSE 0
           /\ \A j, k \in 1..Len(Rules) :
                 (j < k /\ at(Rules[j]) # {} /\ at(Rules[k]) # {})
                 => (CHOOSE i \in at(Rules[j]) : TRUE) < (CHOOSE i \in at(Rules[k]) : TRUE)
           /\ (/\ Len(lg.errors) = 3
               /\ \A i \in 1..3 : lg.errors[i].type = "javascript_error"
               /\ Cardinality({i \in 1..Len(lg.events) : lg.events[i].type = "CLICK"}) = 11)
              => /\ Len(recs) = 2
                 /\ recs[1] = [rule |-> "javascript_error", count |-> 3]
                 /\ recs[2].rule = "clicks"

\* C13 witness: an analysis of a log with a network error recorded before 3
\* javascript errors and 11 clicks returned three recommendations.
C13_Witness ==
    /\ Analysed
    /\ Len(AnalysedLog.errors) = 4
    /\ AnalysedLog.errors[1].type = "network_error"
    /\ Cardinality({i \in 1..Len(AnalysedLog.events) :
                      AnalysedLog.events[i].type = "CLICK"}) = 11
    /\ Len(outcome.value.recommendations) = 3

\* C14: the click rule is strict: an analysis of a log with 10 clicks or fewer
\* holds no UI-review recommendation and one of a log with 11 clicks or more
\* holds exactly one, whatever other events and errors the log holds.
C14_ClickThresholdStrict ==
    Analysed =>
        LET lg == AnalysedLog
            clicks == Cardinality({i \in 1..Len(lg.events) : lg.events[i].type = "CLICK"})
            ui == {i \in 1..Len(outcome.value.recommendations) :
                      outcome.value.recommendations[i].rule = "clicks"}
        IN /\ clicks <= 10 => ui = {}
           /\ clicks >= 11 => Cardinality(ui) = 1

\* C14 witness: an analysis of a log with exactly 10 clicks, a service-worker
\* event and errors returned recommendations without the UI-review one.
C14_Witness ==
    /\ Analysed
    /\ Cardinality({i \in 1..Len(AnalysedLog.events) :
                      AnalysedLog.events[i].type = "CLICK"}) = 10
    /\ Len(AnalysedLog.events) = 11
    /\ Len(outcome.value.recommendations) = 2
    /\ \A i \in 1..2 : outcome.value.recommendations[i].rule # "clicks"

\* C15: get_log_summary can be called on every log in every reachable state,
\* logging or not, and gives the totals and the two breakdowns; a
\* get_debug_summary call returns without raising, returns that summary for a
\* registered log, and leaves every log's events, errors, console lines and
\* flag, and everything else, unchanged.
SummaryOf(lg, summary) ==
    /\ summary.total_events = Len(lg.events)
    /\ summary.total_errors = Len(lg.errors)
    /\ summary.total_console_logs = Len(lg.console_logs)
    /\ DOMAIN summary.event_types = {EventTypeValue[t] : t \in EventType}
    /\ DOMAIN summary.error_types = {lg.errors[i].type : i \in 1..Len(lg.errors)}
    /\ \A k \in DOMAIN summary.error_types :
          summary.error_types[k] =
              Cardinality({i \in 1..Len(lg.errors) : lg.errors[i].type = k})

C16_ObserverFailuresIsolated ==
    [][(/\ outcome'.op = "handler" /\ outcome'.handler \in {"page_event", "console"}
        /\ loggers[outcome'.logger].is_logging
        /\ (outcome'.handler = "page_event" => ~page_listener_raises(outcome'.cb)))
       => LET before == loggers[outcome'.logger]
              after == loggers'[outcome'.logger]
              notified == outcome'.notified
          IN /\ Len(after.events) = Len(before.events) + 1
             /\ outcome'.status = "returned"
             /\ Len(notified) = Len(before.event_callbacks)
             /\ \A j \in 1..Len(notified) :
                   /\ notified[j].callback = before.event_callbacks[j]
                   /\ notified[j].event = Last(after.events).id]_vars

\* C16 witness: an event was recorded while the first of two observers raised,
\* and the second was called all the same.
C16_Witness ==
    /\ outcome.op = "handler" /\ outcome.status = "returned"
    /\ Len(outcome.notified) = 2
    /\ outcome.notified[1].raised /\ ~outcome.notified[2].raised
    /\ Last(loggers[outcome.logger].events).id = outcome.notified[2].event

\* C17: an exception raised by a native callback handler while it translates
\* a browser callback is caught inside the adapter: every handler step returns
\* to the emitter without an exception, and the callbacks scheduled behind it
\* stay scheduled.
C17_HandlerExceptionsCaught ==
    [][outcome'.op = "handler"
       => /\ outcome'.status = "returned"
          /\ pending' = Tail(pending)]_vars

\* C18: single writer per session: in every reachable state, for each session
\* id at most one logger of that session is logging, that is, has listeners
\* that append to a log of that session written to its file.
C18_SingleWriterPerSession ==
    \A s \in SessionIds :
        Cardinality({i \in DOMAIN loggers :
                        /\ loggers[i].session_id = s
                        /\ loggers[i].log_file_path = log_file_path(s)
                        /\ loggers[i].is_logging}) <= 1

\* C19: a debug-logs request for a session id with no registered log is
\* answered with the not-found outcome, status 404.
C19_NotFoundPropagates ==
    (outcome.op = "GET /browser/debug-logs" /\ ~outcome.was_registered)
    => /\ outcome.response.status = "raised"
       /\ outcome.response.status_code = 404

\* C20: when code generation fails at any step (the CLI is not found, is not
\* accessible, exits at once or with a non-zero code, or reading the generated
\* files raises), generate_extension_with_gemini_cli returns an Extension
\* whose files hold the fallback manifest.json, popup.html and popup.js.
C20_FallbackExtensionReturned ==
    (/\ outcome.op = "generate_extension_with_gemini_cli"
     /\ (outcome.cli # "ok" \/ outcome.read_raised))
    => /\ outcome.status = "returned"
       /\ outcome.value.type = "Extension"
       /\ \A n \in DOMAIN FallbackFiles :
             /\ n \in DOMAIN outcome.value.files
             /\ outcome.value.files[n] = FallbackFiles[n]

\* C21: the event sequence and the error sequence of a log are append-only
\* and in arrival order: across every step the old sequence is a prefix of the
\* new one, a handler adds at most one record, at the end, and handlers run in
\* the order their callbacks fired, so the record of a callback fired earlier
\* precedes the record of one fired later.
C21_AppendOnlyArrivalOrder ==
    [][/\ \A i \in DOMAIN loggers :
            /\ IsPrefix(loggers[i].events, loggers'[i].events)
            /\ IsPrefix(loggers[i].errors, loggers'[i].errors)
            /\ Len(loggers'[i].events) + Len(loggers'[i].errors)
               <= Len(loggers[i].events) + Len(loggers[i].errors) + 1
       /\ outcome'.op = "handler"
          => /\ \A k \in 1..Len(pending') : outcome'.fired_at < pending'[k].fired_at
             /\ \A i \in DOMAIN loggers :
                   i # outcome'.logger => /\ loggers'[i].events = loggers[i].events
                                          /\ loggers'[i].errors = loggers[i].errors]_vars

\* C21 witness: the handler of the second of two page errors fired at one
\* log has run, and the log holds their two errors.
C21_Witness ==
    /\ outcome.op = "handler" /\ outcome.handler = "pageerror"
    /\ outcome.fired_at = 2
    /\ Len(loggers[outcome.logger].errors) = 2
    /\ loggers[outcome.logger].errors[1].id < loggers[outcome.logger].errors[2].id

\* C22: a stop does not race with a record_event in flight: under every
\* interleaving of the callbacks of a session with its stop, an event is
\* either appended before the stop takes the snapshot it writes, or dropped;
\* the events of a stopped log are exactly the events of the file its stop
\* wrote, also after the callbacks that were in flight have been handled.
C22_NoEventMissedByFlush ==
    \A i \in DOMAIN loggers :
        ~loggers[i].is_logging
        => /\ loggers[i].log_file_path \in DOMAIN files
           /\ LET f == ParseFile(files[loggers[i].log_file_path])
              IN f.ok /\ f.data.events = DumpEvents(loggers[i].events)

\* C22 witness: a click that fired while the log was logging was handled
\* after the stop and dropped; the log and the file hold the event recorded
\* before.
C22_Witness ==
    /\ outcome.op = "handler" /\ outcome.handler = "page_event"
    /\ outcome.cb.name = "click"
    /\ outcome.logging_when_fired
    /\ ~loggers[outcome.logger].is_logging
    /\ Len(loggers[outcome.logger].events) = 1
    /\ Len(files[loggers[outcome.logger].log_file_path].data.events) = 1

\* C23: after a successful stop, the events_count and errors_count of the
\* session's handle equal the totals in the summary of the file that stop
\* wrote, also when error callbacks are handled before and after the stop.
C23_HandleCountsMatchFile ==
    \A s \in DOMAIN debug_sessions :
        ~debug_sessions[s].is_active
        => /\ debug_sessions[s].log_file_path \in DOMAIN files
           /\ LET f == ParseFile(files[debug_sessions[s].log_file_path])
              IN /\ f.ok
                 /\ debug_sessions[s].events_count = f.data.summary.total_events
                 /\ debug_sessions[s].errors_count = f.data.summary.total_errors

\* C23 witness: one page error was handled before the stop and one after it;
\* the handle and the file count one error, the log in memory holds two.
C23_Witness ==
    /\ "s1" \in DOMAIN debug_sessions
    /\ ~debug_sessions["s1"].is_active
    /\ debug_sessions["s1"].errors_count = 1
    /\ files[debug_sessions["s1"].log_file_path].data.summary.total_errors = 1
    /\ outcome.op = "handler" /\ outcome.handler = "pageerror"
    /\ Len(loggers[outcome.logger].errors) = 2

\* C24: observers are registered at the end of the observer list, and no
\* other step changes the list; a handler step that appends an event calls
\* each registered observer exactly once, with the event just appended, in
\* the order of the list; a handler step that appends no event (the log is
\* not logging) calls no observer.
C24_ObserversOncePerEventInOrder ==
    [][/\ \A i \in DOMAIN loggers :
            IF outcome'.op = "add_event_callback"
            THEN \/ loggers'[i].event_callbacks = loggers[i].event_callbacks
                 \/ \E o \in ObserverCallbacks :
                       loggers'[i].event_callbacks = Append(loggers[i].event_callbacks, o)
            ELSE loggers'[i].event_callbacks = loggers[i].event_callbacks
       /\ outcome'.op = "handler"
          => LET before == loggers[outcome'.logger]
                 after == loggers'[outcome'.logger]
             IN IF after.events # before.events
                THEN /\ before.is_logging
                     /\ outcome'.notified =
                           [j \in 1..Len(before.event_callbacks) |->
                               [callback |-> before.event_callbacks[j],
                                event |-> Last(after.events).id,
                                raised |-> outcome'.notified[j].raised]]
                ELSE outcome'.notified = <<>>]_vars

\* C24 witness: a click that fired while the log was logging is handled after
\* the stop, with two observers registered; it is dropped and no observer is
\* called.
C24_Witness ==
    /\ outcome.op = "handler" /\ outcome.handler = "page_event"
    /\ outcome.status = "returned"
    /\ outcome.logging_when_fired
    /\ ~loggers[outcome.logger].is_logging
    /\ Len(loggers[outcome.logger].event_callbacks) = 2
    /\ outcome.notified = <<>>

\* C25: the number of console lines of a log always equals the number of
\* its console_log plus console_error events: every console message handled
\* appends one line and one console event.
C25_ConsoleLinesMatchConsoleEvents ==
    \A i \in DOMAIN loggers :
        Len(loggers[i].console_logs)
        = CountOfType(loggers[i].events, "CONSOLE_LOG")
          + CountOfType(loggers[i].events, "CONSOLE_ERROR")

\* C26: the textual summary of an analysis is a function of the log's
\* sequences of kinds: it gives the total numbers of events and of errors,
\* then, when there are events, every event kind present exactly once with
\* the number of events of that kind, the kinds in the order of their first
\* occurrence in the log, then the same for the error kinds; a log with the
\* same sequences of kinds and other ids, times and payloads has the same
\* summary.
FirstOccurrence(kinds, k) ==
    CHOOSE i \in 1..Len(kinds) : kinds[i] = k /\ \A m \in 1..(i - 1) : kinds[m] # k

IsBreakdownOf(items, kinds) ==
    /\ \A j, k \in 1..Len(items) : items[j][1] = items[k][1] => j = k
    /\ {items[j][1] : j \in 1..Len(items)} = {kinds[i] : i \in 1..Len(kinds)}
    /\ \A j \in 1..Len(items) :
          items[j][2] = Cardinality({i \in 1..Len(kinds) : kinds[i] = items[j][1]})
    /\ \A j, k \in 1..Len(items) :
          j < k => FirstOccurrence(kinds, items[j][1]) < FirstOccurrence(kinds, items[k][1])

KindsOnly(lg) ==
    [events |-> [i \in 1..Len(lg.events) |-> [type |-> lg.events[i].type]],
     errors |-> [i \in 1..Len(lg.errors) |-> [type |-> lg.errors[i].type]],
     console_logs |-> lg.console_logs]

UserActionTypes == {"CLICK", "KEYBOARD", "NAVIGATION"}

RECURSIVE UserActionsOf(_)
UserActionsOf(events) ==
    IF events = <<>> THEN <<>>
    ELSE (IF Head(events).type \in UserActionTypes THEN <<Head(events)>> ELSE <<>>)
         \o UserActionsOf(Tail(events))

C27_UserActionsFiltered ==
    Analysed =>
        /\ outcome.value.user_actions = UserActionsOf(AnalysedLog.events)
        /\ outcome.value.errors = AnalysedLog.errors

\* C28: for every session id in active_sessions, the is_active flag of the
\* session's handle is true exactly when the session's logger is logging, in
\* every reachable state, also after a stop whose flush failed.
C28_HandleActiveIffLogging ==
    \A s \in DOMAIN active_sessions :
        /\ s \in DOMAIN debug_sessions
        /\ debug_sessions[s].is_active <=> loggers[active_sessions[s]].is_logging

\* C29: no started debug session is left unflushed: every logger of a browser
\* manager that was stopped by a browser close or replaced by a new
\* load-extension request has been stopped and its log is in its session file.
C29_NoSessionLeftUnflushed ==
    \A i \in DOMAIN loggers :
        (browser_manager = None \/ i # Len(loggers))
        => /\ ~loggers[i].is_logging
           /\ loggers[i].log_file_path \in DOMAIN files

\* C30: every error of a log has the kind javascript_error or network_error;
\* a service-worker callback is recorded as an event of type extension_error
\* and as no error; so the recommendations of an analysis never hold the
\* extension_error one.
C30_NoExtensionErrorRecommendation ==
    /\ \A i \in DOMAIN loggers :
          /\ \A k \in 1..Len(loggers[i].errors) :
                loggers[i].errors[k].type \in {"javascript_error", "network_error"}
          /\ \A k \in 1..Len(loggers[i].events) :
                "service_worker" \in DOMAIN loggers[i].events[k].data
                => loggers[i].events[k].type = "EXTENSION_ERROR"
          /\ Len(loggers[i].events) + Len(loggers[i].errors) = fired
    /\ Analysed
       => \A r \in 1..Len(outcome.value.recommendations) :
             outcome.value.recommendations[r].rule # "extension_error"

\* C30 witness: an analysis of a log that holds a service-worker event, a
\* page error and a failed request returned the two error recommendations.
C30_Witness ==
    /\ Analysed
    /\ Len(AnalysedLog.events) = 1
    /\ AnalysedLog.events[1].type = "EXTENSION_ERROR"
    /\ Len(AnalysedLog.errors) = 2
    /\ Len(outcome.value.recommendations) = 2
    /\ outcome.value.recommendations[1].rule = "javascript_error"
    /\ outcome.value.recommendations[2].rule = "network_error"

====
